---- MODULE Spec2Model ----
(***************************************************************************)
(* Role-based route guard (RoleBaseRoute) and the role/permission helper   *)
(* (hasPermission) of the documentation site, as a state machine.         *)
(*                                                                         *)
(* A JavaScript string is a sequence of symbols.  A symbol is either one   *)
(* character ("/", "?", "%", ...) or a run of unreserved letters that no   *)
(* string operation of the code ever splits ("admin", "signin", ...).      *)
(***************************************************************************)
EXTENDS Integers, Sequences, FiniteSets, TLC

VARIABLES
    routeRoles,     \* the route table the component is built with
    pathName,       \* usePathname(): path of the current location
    search,         \* query string of the current location (without "?")
    user,           \* useAuth().user
    cookie,         \* cookies.AUTH_TOKEN is set
    isAuthLoading,  \* useAuth().isLoading
    isLoading,      \* useState(false) of the component
    timer,          \* the loader effect's setTimeout is pending
    pc,             \* "idle" | "effects" (a render is committed, effects pending) | "left"
    mounted,        \* the component has rendered at least once
    snap,           \* the values the last render closed over
    todo,           \* the effects of the last render still to run
    rendered,       \* what the last render returned
    calls,          \* router calls of the last effect flush, in order
    pendingNav,     \* the navigation the router has been asked for
    guardDecision,  \* outcome of the last run of the guard effect
    authOnlyDecision, \* outcome of the last run of the auth-only effect
    rt,             \* redirect round trip: the string and what came back
    perm,           \* permission check: user, permission and result
    http,           \* one call of the http client and how it settles
    chain,          \* one request going through a middleware chain
    ax              \* axiosInstance: the cookie jar and the requests sent

vars == <<routeRoles, pathName, search, user, cookie, isAuthLoading, isLoading,
          timer, pc, mounted, snap, todo, rendered, calls, pendingNav,
          guardDecision, authOnlyDecision, rt, perm, http, chain, ax>>

guardVars == <<routeRoles, pathName, search, user, cookie, isAuthLoading,
               isLoading, timer, pc, mounted, snap, todo, rendered, calls,
               pendingNav, guardDecision, authOnlyDecision>>

----------------------------------------------------------------------------
(* Optional values: null is None, a value v is Some(v).                    *)

None == [some |-> FALSE, val |-> <<>>]

Some(v) == [some |-> TRUE, val |-> v]

(* `d` whatever x is: the optional value is ignored. *)
OrElse_default(x, d) == d

(* `x ?? d` in place of `x || d`: only null falls back to d. *)
OrElse_nullish(x, d) == IF x.some THEN x.val ELSE d

(* JavaScript `x || d` for a string-or-null x: null and "" are falsy.      *)
OrElse(x, d) == IF x.some /\ x.val # <<>> THEN x.val ELSE d

----------------------------------------------------------------------------
(* String primitives.                                                      *)

Range(s) == {s[i] : i \in DOMAIN s}

(* String.prototype.startsWith *)
StartsWith(s, p) ==
    /\ Len(p) <= Len(s)
    /\ SubSeq(s, 1, Len(p)) = p

(* String.prototype.endsWith *)
EndsWith(s, p) ==
    /\ Len(p) <= Len(s)
    /\ SubSeq(s, Len(s) - Len(p) + 1, Len(s)) = p

(* String.prototype.indexOf, 1-based; 0 when p does not occur in s. *)
IndexOf(s, p) ==
    LET hits == {i \in 1..(Len(s) - Len(p) + 1) : SubSeq(s, i, i + Len(p) - 1) = p}
    IN  IF hits = {} THEN 0 ELSE CHOOSE i \in hits : \A j \in hits : i <= j

(* String.prototype.replace with a string pattern: the first occurrence only. *)
Replace(s, p, r) ==
    LET i == IndexOf(s, p)
    IN  IF i = 0 THEN s
        ELSE SubSeq(s, 1, i - 1) \o r \o SubSeq(s, i + Len(p), Len(s))

(* The text before / after the first occurrence of the one-symbol separator. *)
Before(s, c) ==
    LET i == IndexOf(s, <<c>>) IN IF i = 0 THEN s ELSE SubSeq(s, 1, i - 1)

After(s, c) ==
    LET i == IndexOf(s, <<c>>) IN IF i = 0 THEN <<>> ELSE SubSeq(s, i + 1, Len(s))

RECURSIVE Split(_, _)
(* String.prototype.split on a one-symbol separator. *)
Split(s, c) ==
    IF IndexOf(s, <<c>>) = 0 THEN <<s>>
    ELSE <<Before(s, c)>> \o Split(After(s, c), c)

----------------------------------------------------------------------------
(* Percent-encoding.  Hex(c) is the ASCII code of a one-character symbol.  *)

Escaped == {"/", "?", "&", "=", "#", "%", "+", " ", ":"}

Hex(c) ==
    CASE c = "/" -> <<"2", "F">>
      [] c = "?" -> <<"3", "F">>
      [] c = "&" -> <<"2", "6">>
      [] c = "=" -> <<"3", "D">>
      [] c = "#" -> <<"2", "3">>
      [] c = "%" -> <<"2", "5">>
      [] c = "+" -> <<"2", "B">>
      [] c = " " -> <<"2", "0">>
      [] c = ":" -> <<"3", "A">>

HexDigits == {"0", "2", "3", "5", "6", "A", "B", "D", "F"}

(* The character a hex pair stands for; a pair outside the table stands    *)
(* for a character outside the modelled alphabet.                          *)
FromHex(h) ==
    IF \E c \in Escaped : Hex(c) = h
    THEN CHOOSE c \in Escaped : Hex(c) = h
    ELSE "<other>"

(* encodeURI in place of encodeURIComponent: the reserved characters of a  *)
(* URI are left as they are.                                               *)
encodeChar_uri(c) == IF c \in {"%", " "} THEN <<"%">> \o Hex(c) ELSE <<c>>

encodeChar(c) == IF c \in Escaped THEN <<"%">> \o Hex(c) ELSE <<c>>

RECURSIVE encodeURIComponent(_)
(* encodeURIComponent: every character but A-Z a-z 0-9 - _ . ! ~ * ' ( )   *)
(* becomes %XX.                                                            *)
encodeURIComponent(s) ==
    IF s = <<>> THEN <<>>
    ELSE encodeChar(Head(s)) \o encodeURIComponent(Tail(s))

RECURSIVE percentDecode(_)
(* Percent-decoding of the URL standard: one pass, left to right; a "%"    *)
(* not followed by two hex digits is kept as it is.                        *)
percentDecode(s) ==
    IF s = <<>> THEN <<>>
    ELSE IF /\ Head(s) = "%"
            /\ Len(s) >= 3
            /\ s[2] \in HexDigits
            /\ s[3] \in HexDigits
         THEN <<FromHex(<<s[2], s[3]>>)>> \o percentDecode(Tail(Tail(Tail(s))))
         ELSE <<Head(s)>> \o percentDecode(Tail(s))

(* application/x-www-form-urlencoded: "+" is a space. *)
plusToSpace(s) == [i \in DOMAIN s |-> IF s[i] = "+" THEN " " ELSE s[i]]

(* The replaced string is bound as a value before it is decoded. *)
formDecode(s) ==
    CHOOSE v \in {percentDecode(t) : t \in {plusToSpace(s)}} : TRUE

RECURSIVE firstValue(_, _)
firstValue(pairs, name) ==
    IF pairs = <<>> THEN None
    ELSE IF Head(pairs) # <<>> /\ formDecode(Before(Head(pairs), "=")) = name
         THEN Some(formDecode(After(Head(pairs), "=")))
         ELSE firstValue(Tail(pairs), name)

(* URLSearchParams.get(name) on a query string: the value of the first     *)
(* pair named `name`, decoded; null when there is none.                    *)
searchParamsGet(query, name) ==
    CHOOSE v \in {firstValue(pairs, name) : pairs \in {Split(query, "&")}} : TRUE

(* The location an href names: the path up to "?", the query up to "#". *)
hrefPath(href) == Before(Before(href, "#"), "?")

hrefSearch(href) == After(Before(href, "#"), "?")

----------------------------------------------------------------------------
(* The route table and the identities.                                     *)

RoleRoute(url, role, redirect, needAuth) ==
    [url |-> url, role |-> role, redirect |-> redirect, needAuth |-> needAuth]

Home == <<"/">>

SignInPath == <<"/", "signin">>

AdminAll == <<"/", "admin", "/", "*">>

BillingAll == <<"/", "admin", "/", "billing", "/", "*">>

ContactAll == <<"/", "contact", "/", "*">>

AdminSettings == <<"/", "admin", "/", "settings">>

AdminDashboard == <<"/", "admin", "/", "dashboard">>

BillingInvoice == <<"/", "admin", "/", "billing", "/", "invoice">>

AdminReserved == <<"/", "admin", "/", "a", "&", "b", "=", "%", "2", "6">>

ContactUs == <<"/", "contact", "/", "us">>

About == <<"/", "about">>

(* needAuth and redirect left out of a table entry are FALSE and None. *)
(* A table whose two fallbacks point into each other's pattern. *)
DocRouteRoles_loop ==
    << [url |-> <<"/", "admin", "/", "*">>, role |-> <<"superadmin">>,
        redirect |-> [some |-> TRUE, val |-> <<"/", "contact", "/", "us">>],
        needAuth |-> TRUE],
       [url |-> <<"/", "contact", "/", "*">>, role |-> <<"superadmin">>,
        redirect |-> [some |-> TRUE, val |-> <<"/", "admin", "/", "dashboard">>],
        needAuth |-> FALSE] >>

DocRouteRoles ==
    << RoleRoute(AdminAll, <<"superadmin">>, None, TRUE),
       RoleRoute(ContactAll, <<"anonymous", "user", "admin", "superadmin">>, None, FALSE) >>

AdminRoute == RoleRoute(AdminAll, <<"superadmin">>, None, TRUE)

BillingRoute == RoleRoute(BillingAll, <<"admin">>, Some(ContactUs), TRUE)

SettingsRoute == RoleRoute(AdminSettings, <<"user", "admin">>, Some(About), FALSE)

SignInRoute == RoleRoute(SignInPath, <<"superadmin">>, Some(About), FALSE)

(* The tables the component is built with: the documented one, two         *)
(* overlapping wildcards and an exact entry under a wildcard in either     *)
(* order, and a table with an entry for the sign-in page.                  *)
Tables ==
    { DocRouteRoles,
      <<AdminRoute, BillingRoute>>, <<BillingRoute, AdminRoute>>,
      <<AdminRoute, SettingsRoute>>, <<SettingsRoute, AdminRoute>>,
      <<SignInRoute, AdminRoute>> }

pageAccessOnlyIfUnAuthenticated ==
    { <<"/", "signin">>, <<"/", "signup">>, <<"/", "reset-password">>,
      <<"/", "verify-email">> }

(* The locations a visitor asks for: a path and a query string. *)
Paths ==
    { Home, SignInPath, AdminDashboard, BillingInvoice, AdminSettings,
      AdminReserved, ContactUs, About }

SignUpPath == <<"/", "signup">>

(* An address outside the application. *)
ElseWhere == <<"https", ":", "/", "/", "evil.example">>

(* A redirect value that is not a valid percent-encoding. *)
Malformed == <<"%", "z", "z">>

Queries ==
    { <<"redirect", "=">>,
      <<"redirect", "=">> \o encodeURIComponent(ContactUs),
      <<"tab", "=", "a", "&", "redirect", "=", "%", "2", "F", "about">>,
      <<"redirect", "=">> \o encodeURIComponent(SignUpPath),
      <<"redirect", "=">> \o encodeURIComponent(ElseWhere),
      <<"redirect", "=">> \o Malformed }

Locations ==
    {<<p, <<>> >> : p \in Paths} \cup {<<SignInPath, q>> : q \in Queries}

(* user.role of the accounts the auth provider knows. *)
Accounts == { <<"user">>, <<"superadmin">>, <<"user", "admin">> }

----------------------------------------------------------------------------
(* RoleBaseRoute: the values a render closes over.                         *)

isAuthenticated(u, c) == u.some /\ c

userRoles(u) == IF u.some THEN u.val ELSE <<>>

redirectTo(q) == searchParamsGet(q, <<"redirect">>)

View ==
    [ pathName |-> pathName, redirectTo |-> redirectTo(search),
      isLoading |-> isLoading, isAuthLoading |-> isAuthLoading,
      user |-> user, isAuthenticated |-> isAuthenticated(user, cookie) ]

NoView ==
    [ pathName |-> <<>>, redirectTo |-> None, isLoading |-> FALSE,
      isAuthLoading |-> TRUE, user |-> None, isAuthenticated |-> FALSE ]

(* The dependency arrays of the three effects. *)
loaderDeps(v) == <<v.isAuthLoading, v.pathName>>

guardDeps(v) == <<v.pathName, v.isAuthenticated, v.user, v.isAuthLoading>>

authOnlyDeps(v) ==
    <<v.isAuthenticated, v.pathName, v.redirectTo, v.isAuthLoading, v.isLoading>>

----------------------------------------------------------------------------
(* The guard effect.                                                       *)

(* The predicate of routeRoles.find. *)
routeMatches(route, p) ==
    \/ route.url = p
    \/ /\ EndsWith(route.url, <<"/", "*">>)
       /\ StartsWith(p, Replace(route.url, <<"/", "*">>, <<>>))

(* find with a predicate that accepts every entry. *)
find_first(table, p) == IF table = <<>> THEN None ELSE Some(Head(table))

RECURSIVE find(_, _)
(* Array.prototype.find: the first entry the predicate accepts. *)
find(table, p) ==
    IF table = <<>> THEN None
    ELSE IF routeMatches(Head(table), p) THEN Some(Head(table))
         ELSE find(Tail(table), p)

(* The role check reduced to "the user has a role". *)
hasRequiredRole_anyRole(route, roles) == roles # <<>>

(* every in place of some: the user must hold all the roles of the entry. *)
hasRequiredRole_every(route, roles) ==
    \A i \in DOMAIN route.role : \E j \in DOMAIN roles : roles[j] = route.role[i]

(* currentRoute.role.some((role) => userRoles.includes(role)) *)
hasRequiredRole(route, roles) ==
    \E i \in DOMAIN route.role : \E j \in DOMAIN roles : roles[j] = route.role[i]

(* The path appended without encodeURIComponent. *)
signInHref_raw(p) == <<"/", "signin", "?", "redirect", "=">> \o p

signInHref(p) == <<"/", "signin", "?", "redirect", "=">> \o encodeURIComponent(p)

Decision(ran, route, allowed, reason, to) ==
    [ran |-> ran, route |-> route, allowed |-> allowed, reason |-> reason,
     redirectTo |-> to]

NoDecision == Decision(FALSE, None, TRUE, "NONE", None)

(* The guard effect without its `if (isAuthLoading) return`. *)
guardEffect_noWait(table, v) ==
    LET currentRoute == find(table, v.pathName)
    IN  IF ~currentRoute.some
        THEN Decision(TRUE, None, TRUE, "NONE", None)
        ELSE IF currentRoute.val.needAuth /\ ~v.isAuthenticated
        THEN Decision(TRUE, currentRoute, FALSE, "NOT_AUTHENTICATED",
                      Some(signInHref(v.pathName)))
        ELSE IF /\ v.isAuthenticated
                /\ ~hasRequiredRole(currentRoute.val, userRoles(v.user))
        THEN Decision(TRUE, currentRoute, FALSE, "MISSING_ROLE",
                      Some(OrElse(currentRoute.val.redirect, Home)))
        ELSE Decision(TRUE, currentRoute, TRUE, "NONE", None)

(* What the guard effect does for the values v of a render: the entry it   *)
(* applies and the router.replace it issues, if any.                       *)
guardEffect(table, v) ==
    IF v.isAuthLoading THEN NoDecision
    ELSE LET currentRoute == find(table, v.pathName)
         IN  IF ~currentRoute.some
             THEN Decision(TRUE, None, TRUE, "NONE", None)
             ELSE IF currentRoute.val.needAuth /\ ~v.isAuthenticated
             THEN Decision(TRUE, currentRoute, FALSE, "NOT_AUTHENTICATED",
                           Some(signInHref(v.pathName)))
             ELSE IF /\ v.isAuthenticated
                     /\ ~hasRequiredRole(currentRoute.val, userRoles(v.user))
             THEN Decision(TRUE, currentRoute, FALSE, "MISSING_ROLE",
                           Some(OrElse(currentRoute.val.redirect, Home)))
             ELSE Decision(TRUE, currentRoute, TRUE, "NONE", None)

(* The auth-only effect: router.push(redirectTo || "/") for an             *)
(* authenticated visitor of an unauthenticated-only page.                  *)
authOnlyEffect(v) ==
    IF v.isAuthLoading \/ v.isLoading THEN NoDecision
    ELSE IF v.isAuthenticated /\ v.pathName \in pageAccessOnlyIfUnAuthenticated
    THEN Decision(TRUE, None, FALSE, "AUTH_ONLY_PAGE",
                  Some(OrElse(v.redirectTo, Home)))
    ELSE Decision(TRUE, None, TRUE, "NONE", None)

----------------------------------------------------------------------------
(* The component as a state machine.  A render closes over the hook        *)
(* values; its effects run after it, in order, each one only when one of   *)
(* its dependencies differs from the previous render's; an event (timer,   *)
(* auth, navigation) is handled once the render it interrupts is done.     *)

RouterCall(kind, href) == [kind |-> kind, href |-> href]

(* The router calls of one effect flush: the guard effect's replace, then  *)
(* the auth-only effect's push.                                            *)
flushCalls(g, a) ==
    (IF g.redirectTo.some THEN <<RouterCall("replace", g.redirectTo.val)>> ELSE <<>>)
    \o (IF a.redirectTo.some THEN <<RouterCall("push", a.redirectTo.val)>> ELSE <<>>)

(* What the component returns: <PreLoader /> or its children. *)
renderOutput(v) == IF v.isAuthLoading \/ v.isLoading THEN "PreLoader" ELSE "children"

NoEffects == [loader |-> FALSE, guard |-> FALSE, authOnly |-> FALSE]

GuardStart(table, location, token) ==
    /\ routeRoles = table
    /\ pathName = location[1]
    /\ search = location[2]
    /\ user = None
    /\ cookie = token
    /\ isAuthLoading = TRUE
    /\ isLoading = FALSE
    /\ timer = FALSE
    /\ pc = "idle"
    /\ mounted = FALSE
    /\ snap = NoView
    /\ todo = NoEffects
    /\ rendered = "none"
    /\ calls = <<>>
    /\ pendingNav = None
    /\ guardDecision = NoDecision
    /\ authOnlyDecision = NoDecision

Idle == [stage |-> "idle"]

(* The component mounts on any location, with the session still loading. *)
Init ==
    /\ \E table \in Tables, location \in Locations, token \in BOOLEAN :
          GuardStart(table, location, token)
    /\ rt = Idle
    /\ perm = Idle
    /\ http = Idle
    /\ chain = Idle
    /\ ax = Idle

(* The last render and its effects are done and nothing has changed since. *)
Quiet == pc = "idle" /\ mounted /\ View = snap

(* The component function runs: it closes over the current hook values    *)
(* and returns the preloader or the children.                              *)
Render ==
    /\ pc = "idle"
    /\ ~mounted \/ View # snap
    /\ \E v \in {View} :
          /\ snap' = v
          /\ todo' = [ loader |-> ~mounted \/ loaderDeps(v) # loaderDeps(snap),
                       guard |-> ~mounted \/ guardDeps(v) # guardDeps(snap),
                       authOnly |-> ~mounted \/ authOnlyDeps(v) # authOnlyDeps(snap) ]
          /\ rendered' = renderOutput(v)
    /\ calls' = <<>>
    /\ guardDecision' = NoDecision
    /\ authOnlyDecision' = NoDecision
    /\ mounted' = TRUE
    /\ pc' = "effects"
    /\ UNCHANGED <<routeRoles, pathName, search, user, cookie, isAuthLoading,
                   isLoading, timer, pendingNav, rt, perm, http, chain, ax>>

(* The effects of the committed render run: the loader effect (its cleanup *)
(* clears the pending timer), the guard effect, the auth-only effect.      *)
RunEffects ==
    /\ pc = "effects"
    /\ LET g == IF todo.guard THEN guardEffect(routeRoles, snap) ELSE NoDecision
           a == IF todo.authOnly THEN authOnlyEffect(snap) ELSE NoDecision
           made == flushCalls(g, a)
       IN  /\ isLoading' = IF todo.loader /\ ~snap.isAuthLoading THEN TRUE ELSE isLoading
           /\ timer' = IF todo.loader THEN ~snap.isAuthLoading ELSE timer
           /\ guardDecision' = g
           /\ authOnlyDecision' = a
           /\ calls' = made
           /\ pendingNav' = IF made = <<>> THEN pendingNav
                            ELSE Some(made[Len(made)].href)
    /\ todo' = NoEffects
    /\ pc' = "idle"
    /\ UNCHANGED <<routeRoles, pathName, search, user, cookie, isAuthLoading,
                   mounted, snap, rendered, rt, perm, http, chain, ax>>

(* setTimeout(() => setIsLoading(false), 1000) fires. *)
TimerFires ==
    /\ Quiet
    /\ timer
    /\ timer' = FALSE
    /\ isLoading' = FALSE
    /\ UNCHANGED <<routeRoles, pathName, search, user, cookie, isAuthLoading,
                   pc, mounted, snap, todo, rendered, calls, pendingNav,
                   guardDecision, authOnlyDecision, rt, perm, http, chain, ax>>

(* useAuth() finishes loading: the session is resolved to an account or    *)
(* to nobody.                                                              *)
AuthResolves ==
    /\ Quiet
    /\ isAuthLoading
    /\ isAuthLoading' = FALSE
    /\ \E u \in {None} \cup {Some(r) : r \in Accounts} : user' = u
    /\ UNCHANGED <<routeRoles, pathName, search, cookie, isLoading, timer, pc,
                   mounted, snap, todo, rendered, calls, pendingNav,
                   guardDecision, authOnlyDecision, rt, perm, http, chain, ax>>

(* The visitor signs in: the user is set and the AUTH_TOKEN cookie stored. *)
SignIn ==
    /\ Quiet
    /\ ~isAuthLoading
    /\ ~isAuthenticated(user, cookie)
    /\ \E r \in Accounts : user' = Some(r)
    /\ cookie' = TRUE
    /\ UNCHANGED <<routeRoles, pathName, search, isAuthLoading, isLoading, timer,
                   pc, mounted, snap, todo, rendered, calls, pendingNav,
                   guardDecision, authOnlyDecision, rt, perm, http, chain, ax>>

(* The visitor signs out: the user and the cookie are dropped. *)
SignOut ==
    /\ Quiet
    /\ ~isAuthLoading
    /\ isAuthenticated(user, cookie)
    /\ user' = None
    /\ cookie' = FALSE
    /\ UNCHANGED <<routeRoles, pathName, search, isAuthLoading, isLoading, timer,
                   pc, mounted, snap, todo, rendered, calls, pendingNav,
                   guardDecision, authOnlyDecision, rt, perm, http, chain, ax>>

(* The visitor follows a link inside the application. *)
Visit ==
    /\ Quiet
    /\ \E l \in Locations :
          /\ l # <<pathName, search>>
          /\ pathName' = l[1]
          /\ search' = l[2]
    /\ UNCHANGED <<routeRoles, user, cookie, isAuthLoading, isLoading, timer, pc,
                   mounted, snap, todo, rendered, calls, pendingNav,
                   guardDecision, authOnlyDecision, rt, perm, http, chain, ax>>

(* An href with a scheme: an address of another origin. *)
isExternal(href) ==
    /\ IndexOf(href, <<":">>) > 0
    /\ \/ IndexOf(href, <<"/">>) = 0
       \/ IndexOf(href, <<":">>) < IndexOf(href, <<"/">>)

(* The path up to and including its last "/". *)
dirOf(path) ==
    LET slashes == {i \in DOMAIN path : path[i] = "/"}
    IN  IF slashes = {} THEN <<"/">>
        ELSE SubSeq(path, 1, CHOOSE i \in slashes : \A j \in slashes : j <= i)

(* The href resolved against the current location: a path that does not   *)
(* start with "/" is relative to the directory of the current path (an    *)
(* href that is only a query or a fragment is not among the inputs).      *)
resolve(href, base) ==
    IF href # <<>> /\ Head(href) = "/" THEN href ELSE dirOf(base) \o href

(* The router completes the navigation it was asked for; an address of     *)
(* another origin is loaded by the browser and the application is left.    *)
Navigate ==
    /\ Quiet
    /\ pendingNav.some
    /\ IF isExternal(pendingNav.val)
       THEN /\ pc' = "left"
            /\ UNCHANGED <<pathName, search>>
       ELSE /\ pathName' = hrefPath(resolve(pendingNav.val, pathName))
            /\ search' = hrefSearch(resolve(pendingNav.val, pathName))
            /\ pc' = pc
    /\ pendingNav' = None
    /\ UNCHANGED <<routeRoles, user, cookie, isAuthLoading, isLoading, timer,
                   mounted, snap, todo, rendered, calls, guardDecision,
                   authOnlyDecision, rt, perm, http, chain, ax>>

Next ==
    \/ Render
    \/ RunEffects
    \/ TimerFires
    \/ AuthResolves
    \/ SignIn
    \/ SignOut
    \/ Visit
    \/ Navigate

Spec == Init /\ [][Next]_vars

----------------------------------------------------------------------------
(* The redirect parameter, from the guard's sign-in href to the value      *)
(* useSearchParams().get("redirect") returns on the sign-in page.          *)

MaxLen == 3

RtChars == {"/", "a", "?", "&", "=", "#", "%", "+", " ", "2", "6"}

RtStrings == UNION {[1..n -> RtChars] : n \in 0..MaxLen}

RtInit ==
    /\ GuardStart(DocRouteRoles, <<Home, <<>> >>, FALSE)
    /\ \E p \in RtStrings : rt = [stage |-> "start", arg |-> p]
    /\ perm = Idle
    /\ http = Idle
    /\ chain = Idle
    /\ ax = Idle

(* router.replace(`/signin?redirect=${encodeURIComponent(pathName)}`) *)
RtReplace ==
    /\ rt.stage = "start"
    /\ rt' = [stage |-> "asked", arg |-> rt.arg, href |-> signInHref(rt.arg)]
    /\ UNCHANGED <<guardVars, perm, http, chain, ax>>

(* The sign-in page reads searchParams.get("redirect"). *)
RtLand ==
    /\ rt.stage = "asked"
    /\ rt' = [stage |-> "landed", arg |-> rt.arg, href |-> rt.href,
              path |-> hrefPath(rt.href),
              out |-> redirectTo(hrefSearch(rt.href))]
    /\ UNCHANGED <<guardVars, perm, http, chain, ax>>

RtNext == RtReplace \/ RtLand

SpecRoundTrip == RtInit /\ [][RtNext]_vars

----------------------------------------------------------------------------
(* Roles and permissions.                                                  *)

ROLES ==
    [ admin |-> <<"view:comments", "create:comments", "update:comments",
                  "delete:comments">>,
      moderator |-> <<"view:comments", "create:comments", "delete:comments">>,
      user |-> <<"view:comments", "create:comments">> ]

Permissions ==
    {"view:comments", "create:comments", "update:comments", "delete:comments"}

RECURSIVE includes(_, _)
(* Array.prototype.includes *)
includes(array, x) ==
    IF array = <<>> THEN FALSE
    ELSE IF Head(array) = x THEN TRUE
    ELSE includes(Tail(array), x)

(* Only the first role of the user is looked up. *)
hasPermission_firstRole(roles, permission) ==
    IF roles = <<>> THEN "false"
    ELSE IF Head(roles) \notin DOMAIN ROLES THEN "TypeError"
    ELSE IF includes(ROLES[Head(roles)], permission) THEN "true"
    ELSE "false"

RECURSIVE hasPermission(_, _)
(* user.roles.some((role) => ROLES[role].includes(permission)): the roles  *)
(* are tried in order and the first that grants the permission ends the    *)
(* search; ROLES[role] of a role outside the table is undefined, and       *)
(* calling includes on it throws a TypeError.                              *)
hasPermission(roles, permission) ==
    IF roles = <<>> THEN "false"
    ELSE IF Head(roles) \notin DOMAIN ROLES THEN "TypeError"
    ELSE IF includes(ROLES[Head(roles)], permission) THEN "true"
    ELSE hasPermission(Tail(roles), permission)

MaxRoles == 3

(* Role names as they arrive at run time: the three of ROLES and one the   *)
(* table does not list.                                                    *)
RoleNames == {"admin", "moderator", "user", "ghost"}

RoleLists == UNION {[1..n -> RoleNames] : n \in 0..MaxRoles}

PermInit ==
    /\ GuardStart(DocRouteRoles, <<Home, <<>> >>, FALSE)
    /\ rt = Idle
    /\ http = Idle
    /\ chain = Idle
    /\ ax = Idle
    /\ \E r \in RoleLists, p \in Permissions :
          perm = [stage |-> "start", roles |-> r, permission |-> p]

PermCheck ==
    /\ perm.stage = "start"
    /\ perm' = [stage |-> "done", roles |-> perm.roles,
                permission |-> perm.permission,
                out |-> hasPermission(perm.roles, perm.permission)]
    /\ UNCHANGED <<guardVars, rt, http, chain, ax>>

PermNext == PermCheck

SpecPerm == PermInit /\ [][PermNext]_vars

----------------------------------------------------------------------------
(* Properties of the guard effect.  guardDecision and authOnlyDecision     *)
(* describe the effects of the render that closed over snap.               *)

(* The entry the guard applies to the rendered path. *)
Resolved == find(routeRoles, snap.pathName)

Replaces(href) == calls # <<>> /\ calls[1] = RouterCall("replace", href)

NoReplace == \A i \in DOMAIN calls : calls[i].kind # "replace"

(* C1: when the entry resolved for the path needs authentication and the   *)
(* visitor is not authenticated, the guard denies with NOT_AUTHENTICATED   *)
(* and replaces the location by /signin with one query parameter,          *)
(* redirect, whose decoded value is exactly the path.                      *)
C1_UnauthenticatedSentToSignIn ==
    (/\ guardDecision.ran
     /\ Resolved.some
     /\ Resolved.val.needAuth
     /\ ~snap.isAuthenticated)
    => /\ ~guardDecision.allowed
       /\ guardDecision.reason = "NOT_AUTHENTICATED"
       /\ guardDecision.redirectTo.some
       /\ LET href == guardDecision.redirectTo.val
          IN  /\ hrefPath(href) = <<"/", "signin">>
              /\ Len(Split(hrefSearch(href), "&")) = 1
              /\ searchParamsGet(hrefSearch(href), <<"redirect">>) = Some(snap.pathName)
              /\ Replaces(href)

W1_SentToSignInWithReservedPath ==
    /\ guardDecision.ran
    /\ guardDecision.reason = "NOT_AUTHENTICATED"
    /\ snap.pathName = AdminReserved
    /\ ~snap.isAuthenticated

(* C2: an authenticated visitor holding none of the roles of the entry     *)
(* resolved for the path is denied with MISSING_ROLE and sent to the       *)
(* entry's redirect when it has one, to "/" otherwise; a "user" on         *)
(* /admin/dashboard under the documented table is sent to "/".             *)
C2_MissingRoleSentToFallback ==
    /\ (/\ guardDecision.ran
        /\ snap.isAuthenticated
        /\ Resolved.some
        /\ Range(Resolved.val.role) \cap Range(userRoles(snap.user)) = {})
       => LET fallback == IF Resolved.val.redirect.some
                          THEN Resolved.val.redirect.val
                          ELSE <<"/">>
          IN  /\ ~guardDecision.allowed
              /\ guardDecision.reason = "MISSING_ROLE"
              /\ guardDecision.redirectTo = Some(fallback)
              /\ Replaces(fallback)
    /\ (/\ guardDecision.ran
        /\ snap.isAuthenticated
        /\ routeRoles = DocRouteRoles
        /\ snap.pathName = AdminDashboard
        /\ snap.user = Some(<<"user">>))
       => /\ guardDecision.reason = "MISSING_ROLE"
          /\ guardDecision.redirectTo = Some(<<"/">>)

W2_UserOnAdminDashboard ==
    /\ guardDecision.ran
    /\ snap.isAuthenticated
    /\ routeRoles = DocRouteRoles
    /\ snap.pathName = AdminDashboard
    /\ snap.user = Some(<<"user">>)
    /\ guardDecision.reason = "MISSING_ROLE"

(* C3: when no entry of the table matches the path, the guard allows and   *)
(* issues no redirect, authenticated or not.                               *)
C3_UnlistedPathAllowed ==
    (/\ guardDecision.ran
     /\ \A i \in DOMAIN routeRoles : ~routeMatches(routeRoles[i], snap.pathName))
    => /\ guardDecision.allowed
       /\ guardDecision.reason = "NONE"
       /\ ~guardDecision.redirectTo.some
       /\ NoReplace

W3_UnlistedPathAllowed ==
    /\ guardDecision.ran
    /\ snap.pathName = About
    /\ ~snap.isAuthenticated
    /\ guardDecision.allowed

isWildcard(route) == EndsWith(route.url, <<"/", "*">>)

(* C4: when several wildcard entries match the path (and no exact one),    *)
(* the entry applied is the one with the longest prefix, wherever it       *)
(* stands in the table.                                                    *)
C4_LongestPrefixWins ==
    LET matching == {i \in DOMAIN routeRoles :
                        /\ isWildcard(routeRoles[i])
                        /\ routeMatches(routeRoles[i], snap.pathName)}
    IN  (/\ guardDecision.ran
         /\ Cardinality(matching) >= 2
         /\ \A i \in DOMAIN routeRoles : routeRoles[i].url # snap.pathName)
        => /\ guardDecision.route.some
           /\ \A i \in matching :
                 Len(routeRoles[i].url) <= Len(guardDecision.route.val.url)

(* C5: when an entry whose url is the path itself and a wildcard entry     *)
(* both match, the exact entry is the one applied, wherever it stands in   *)
(* the table.                                                              *)
C5_ExactBeforeWildcard ==
    (/\ guardDecision.ran
     /\ \E i \in DOMAIN routeRoles : routeRoles[i].url = snap.pathName
     /\ \E i \in DOMAIN routeRoles :
           /\ isWildcard(routeRoles[i])
           /\ routeMatches(routeRoles[i], snap.pathName))
    => /\ guardDecision.route.some
       /\ guardDecision.route.val.url = snap.pathName

C10_ChildrenOnlyForAuthorized ==
    (/\ rendered = "children"
     /\ Resolved.some
     /\ Resolved.val.needAuth)
    => /\ snap.isAuthenticated
       /\ Range(Resolved.val.role) \cap Range(userRoles(snap.user)) # {}

Called(href) == \E i \in DOMAIN calls : calls[i].href = href

(* C12: every denial of the guard effect and of the auth-only effect       *)
(* comes with a non-empty redirect target that is handed to the router.    *)
C12_DenialCarriesRedirect ==
    /\ (guardDecision.ran /\ ~guardDecision.allowed)
       => /\ guardDecision.redirectTo.some
          /\ guardDecision.redirectTo.val # <<>>
          /\ Called(guardDecision.redirectTo.val)
    /\ (authOnlyDecision.ran /\ ~authOnlyDecision.allowed)
       => /\ authOnlyDecision.redirectTo.some
          /\ authOnlyDecision.redirectTo.val # <<>>
          /\ Called(authOnlyDecision.redirectTo.val)

W12_DenialWithEmptyParameter ==
    /\ authOnlyDecision.ran
    /\ ~authOnlyDecision.allowed
    /\ snap.redirectTo = Some(<<>>)
    /\ calls # <<>>

RECURSIVE wellEncoded(_)
(* Every "%" of the string is followed by two hex digits. *)
wellEncoded(s) ==
    IF s = <<>> THEN TRUE
    ELSE IF Head(s) = "%"
         THEN /\ Len(s) >= 3
              /\ s[2] \in HexDigits
              /\ s[3] \in HexDigits
              /\ wellEncoded(SubSeq(s, 4, Len(s)))
         ELSE wellEncoded(Tail(s))

(* The undecoded value of the redirect parameter of the current location. *)
rawRedirect ==
    LET pairs == Split(search, "&")
        named == {i \in DOMAIN pairs : Before(pairs[i], "=") = <<"redirect">>}
    IN  IF named = {} THEN None
        ELSE Some(After(pairs[CHOOSE i \in named : \A j \in named : i <= j], "="))

(* C13: when the redirect parameter is absent or is not a valid            *)
(* percent-encoding, the auth-only redirect goes to "/".                   *)
C13_AbsentOrMalformedGoesHome ==
    (/\ authOnlyDecision.ran
     /\ ~authOnlyDecision.allowed
     /\ pathName = snap.pathName
     /\ redirectTo(search) = snap.redirectTo
     /\ ~rawRedirect.some \/ ~wellEncoded(rawRedirect.val))
    => authOnlyDecision.redirectTo = Some(<<"/">>)

(* C17: while the session is loading the router is not called: no call in  *)
(* the flush and no navigation pending.                                    *)
C17_NoRedirectWhileAuthLoading ==
    isAuthLoading => (calls = <<>> /\ ~pendingNav.some)

W17_EffectsRanWhileLoading ==
    /\ isAuthLoading
    /\ mounted
    /\ pc = "idle"
    /\ routeRoles = DocRouteRoles
    /\ snap.pathName = AdminDashboard
    /\ calls = <<>>

(* C18: the role check applies to authenticated visitors only: an          *)
(* unauthenticated visitor on a path whose resolved entry does not need    *)
(* authentication is allowed with no redirect, and an authenticated        *)
(* visitor holding one of the entry's roles is allowed.                    *)
C18_RoleCheckOnlyWhenAuthenticated ==
    /\ (/\ guardDecision.ran
        /\ Resolved.some
        /\ ~Resolved.val.needAuth
        /\ ~snap.isAuthenticated)
       => /\ guardDecision.allowed
          /\ ~guardDecision.redirectTo.some
          /\ NoReplace
    /\ (/\ guardDecision.ran
        /\ Resolved.some
        /\ snap.isAuthenticated
        /\ Range(Resolved.val.role) \cap Range(userRoles(snap.user)) # {})
       => /\ guardDecision.allowed
          /\ ~guardDecision.redirectTo.some
          /\ NoReplace

W18_UnauthenticatedOnContact ==
    /\ guardDecision.ran
    /\ guardDecision.allowed
    /\ guardDecision.route.some
    /\ ~snap.isAuthenticated
    /\ snap.user = None
    /\ routeRoles = DocRouteRoles
    /\ snap.pathName = ContactUs

(* C20: the auth-only redirect hands the router "/" or a path that starts  *)
(* with "/", never another kind of address.                                *)
C20_PushTargetIsInternal ==
    \A i \in DOMAIN calls :
        calls[i].kind = "push"
        => (calls[i].href # <<>> /\ Head(calls[i].href) = "/")

----------------------------------------------------------------------------
(* The http client.  A JavaScript value is a tagged text; an axios call    *)
(* either resolves with a response or rejects with a thrown value.         *)

Undefined == [t |-> "undefined", v |-> ""]

Null == [t |-> "null", v |-> ""]

Str(text) == [t |-> "string", v |-> text]

Bool(b) == [t |-> "boolean", v |-> IF b THEN "true" ELSE "false"]

Obj(name) == [t |-> "object", v |-> name]

truthy(x) ==
    /\ x.t \notin {"undefined", "null"}
    /\ ~(x.t = "string" /\ x.v = "")
    /\ ~(x.t = "boolean" /\ x.v = "false")

(* x || d *)
Or(x, d) == IF truthy(x) THEN x ELSE d

(* x ?? d *)
Nullish(x, d) == IF x.t \in {"undefined", "null"} THEN d ELSE x

(* response.data: null, or an object with the fields the client reads. *)
NoBody ==
    [present |-> FALSE, success |-> Undefined, message |-> Undefined,
     error |-> Undefined, data |-> Undefined]

Body(success, message, error, data) ==
    [present |-> TRUE, success |-> success, message |-> message,
     error |-> error, data |-> data]

(* A thrown value: its class, error.response, error.request, error.message. *)
Thrown(class, hasResponse, body, hasRequest, message) ==
    [class |-> class, hasResponse |-> hasResponse, body |-> body,
     hasRequest |-> hasRequest, message |-> message]

NoError == Thrown("none", FALSE, NoBody, FALSE, Undefined)

Messages == {Undefined, Str(""), Str("text")}

SuccessBodies ==
    { Body(su, m, Undefined, d) :
        su \in {Undefined, Bool(TRUE), Bool(FALSE)},
        m \in Messages,
        d \in {Undefined, Null, Obj("payload")} }

ErrorBodies ==
    { Body(Undefined, m, e, Undefined) :
        m \in Messages, e \in {Undefined, Str(""), Str("E"), Obj("details")} }

ThrownValues ==
    {Thrown("AxiosError", TRUE, b, TRUE, Str("Request failed")) :
        b \in ErrorBodies \cup {NoBody}}
    \cup {Thrown("AxiosError", FALSE, NoBody, TRUE, Str("Network Error"))}
    \cup {Thrown("AxiosError", FALSE, NoBody, FALSE, m) : m \in {Str(""), Str("canceled")}}
    \cup {Thrown("Error", FALSE, NoBody, FALSE, m) : m \in {Str(""), Str("boom")}}
    \cup {Thrown("other", FALSE, NoBody, FALSE, Undefined)}

(* How axiosInstance.get/post/put/delete settles. *)
AxiosOutcomes ==
    {[kind |-> "resolved", body |-> b, error |-> NoError] :
        b \in SuccessBodies \cup {NoBody}}
    \cup {[kind |-> "rejected", body |-> NoBody, error |-> e] : e \in ThrownValues}

ApiResponse(success, message, error, data) ==
    [success |-> success, message |-> message, error |-> error, data |-> data]

(* handleAxiosError without the `|| errorMessage` of the response branch. *)
handleAxiosError_noDefault(error) ==
    LET message ==
            IF error.class = "AxiosError"
            THEN IF error.hasResponse THEN error.body.message
                 ELSE IF error.hasRequest
                 THEN Str("No response from server. Please check your connection.")
                 ELSE error.message
            ELSE IF error.class = "Error" THEN error.message
            ELSE Str("Something went wrong. Please try again.")
    IN  ApiResponse(Bool(FALSE), message, Str(""), Null)

handleAxiosError(error) ==
    LET errorMessage == Str("Something went wrong. Please try again.")
        data == IF error.body.present THEN Obj("response.data") ELSE Null
        message ==
            IF error.class = "AxiosError"
            THEN IF error.hasResponse THEN Or(error.body.message, errorMessage)
                 ELSE IF error.hasRequest
                 THEN Str("No response from server. Please check your connection.")
                 ELSE error.message
            ELSE IF error.class = "Error" THEN error.message
            ELSE errorMessage
        errorDetails ==
            IF error.class = "AxiosError" /\ error.hasResponse
            THEN Or(error.body.error, Or(data, Str("")))
            ELSE Str("")
    IN  ApiResponse(Bool(FALSE), message, errorDetails, Null)

(* Reading a property of response.data when it is null. *)
TypeError ==
    Thrown("Error", FALSE, NoBody, FALSE,
           Str("Cannot read properties of null (reading 'success')"))

(* handleResponse: the ApiResponse it returns, or the error it throws. *)
handleResponse(response) ==
    IF ~response.body.present
    THEN [threw |-> TRUE, error |-> TypeError,
          value |-> ApiResponse(Undefined, Undefined, Undefined, Undefined)]
    ELSE [threw |-> FALSE, error |-> NoError,
          value |-> ApiResponse(response.body.success,
                                Or(response.body.message, Str("Request successful")),
                                Undefined,
                                Nullish(response.body.data, Null))]

(* try { return handleResponse(await axios) } catch (error) { return       *)
(* handleAxiosError(error) }: the promise the async method returns.        *)
request(outcome) ==
    IF outcome.kind = "rejected"
    THEN [state |-> "fulfilled", value |-> handleAxiosError(outcome.error)]
    ELSE IF handleResponse(outcome).threw
    THEN [state |-> "fulfilled",
          value |-> handleAxiosError(handleResponse(outcome).error)]
    ELSE [state |-> "fulfilled", value |-> handleResponse(outcome).value]

Methods == {"get", "post", "put", "delete"}

HttpInit ==
    /\ GuardStart(DocRouteRoles, <<Home, <<>> >>, FALSE)
    /\ rt = Idle
    /\ perm = Idle
    /\ chain = Idle
    /\ ax = Idle
    /\ \E m \in Methods, o \in AxiosOutcomes :
          http = [stage |-> "pending", method |-> m, axios |-> o]

settle(method) ==
    /\ http.stage = "pending"
    /\ http.method = method
    /\ http' = [stage |-> "settled", method |-> http.method, axios |-> http.axios,
                promise |-> request(http.axios)]
    /\ UNCHANGED <<guardVars, rt, perm, chain, ax>>

get == settle("get")

post == settle("post")

put == settle("put")

delete == settle("delete")

HttpNext ==
    \/ get
    \/ post
    \/ put
    \/ delete

SpecHttp == HttpInit /\ [][HttpNext]_vars

----------------------------------------------------------------------------
(* chainMiddleware.  The composed middleware is followed handler by        *)
(* handler: the handler built for position `index` is the one its          *)
(* predecessor received as `next`.                                         *)

MaxChain == 3

MiddlewareKinds == {"loggerMiddleware", "authMiddleware"}

FunctionLists == UNION {[1..n -> MiddlewareKinds] : n \in 0..MaxChain}

Responses == {"NextResponse.next()", "NextResponse.rewrite()"}

LoginRedirect == "NextResponse.redirect(/login)"

(* chainMiddleware(functions, index + 2): one factory is left out. *)
nextIndex_skip(index) == index + 2

(* chainMiddleware(functions, index + 1) *)
nextIndex(index) == index + 1

(* functions[index], or the final function when there is none. *)
current(functions, index) ==
    IF index \in DOMAIN functions THEN functions[index] ELSE "final"

ChainInit ==
    /\ GuardStart(DocRouteRoles, <<Home, <<>> >>, FALSE)
    /\ rt = Idle
    /\ perm = Idle
    /\ http = Idle
    /\ ax = Idle
    /\ \E f \in FunctionLists, token \in BOOLEAN, r \in Responses :
          chain = [stage |-> "running", functions |-> f, authToken |-> token,
                   response |-> r, index |-> 1, ran |-> <<>>, passed |-> {},
                   result |-> "none"]

(* The handler at chain.index calls next(request, event, response). *)
callNext ==
    [chain EXCEPT !.index = nextIndex(chain.index),
                  !.ran = Append(chain.ran, chain.index),
                  !.passed = chain.passed \cup {chain.index}]

(* The handler at chain.index returns `value` without calling next. *)
return(value) ==
    [chain EXCEPT !.stage = "done",
                  !.ran = Append(chain.ran, chain.index),
                  !.result = value]

loggerMiddleware ==
    /\ chain.stage = "running"
    /\ current(chain.functions, chain.index) = "loggerMiddleware"
    /\ chain' = callNext
    /\ UNCHANGED <<guardVars, rt, perm, http, ax>>

authMiddleware ==
    /\ chain.stage = "running"
    /\ current(chain.functions, chain.index) = "authMiddleware"
    /\ chain' = IF ~chain.authToken THEN return(LoginRedirect) ELSE callNext
    /\ UNCHANGED <<guardVars, rt, perm, http, ax>>

(* The function at the end of the chain returns the response it is given. *)
finalMiddleware ==
    /\ chain.stage = "running"
    /\ current(chain.functions, chain.index) = "final"
    /\ chain' = [chain EXCEPT !.stage = "done", !.result = chain.response]
    /\ UNCHANGED <<guardVars, rt, perm, http, ax>>

ChainNext ==
    \/ loggerMiddleware
    \/ authMiddleware
    \/ finalMiddleware

SpecChain == ChainInit /\ [][ChainNext]_vars

----------------------------------------------------------------------------
(* axiosInstance.  The cookie jar of the browser changes between requests; *)
(* the request interceptor runs for every request.                         *)

MaxRequests == 2

(* What cookies.get("AUTH_TOKEN") can return. *)
JarValues == {Undefined, Str(""), Str("t1"), Str("t2")}

(* config.headers of the caller: a header that is not set is <<>>. *)
ConfigHeaders ==
    { [Authorization |-> a, ContentType |-> c] :
        a \in {<<>>, <<"Basic", "x">>}, c \in {<<>>, <<"text/plain">>} }

(* The cookie as it was when the module was loaded. *)
cookiesGet_atLoad(a) == a.atLoad

(* cookies.get("AUTH_TOKEN"): the cookie as it is now. *)
cookiesGet(a) == a.jar

(* The fulfilled handler of interceptors.request.use. *)
requestInterceptor(token, headers) ==
    IF truthy(token)
    THEN [headers EXCEPT !.Authorization = <<"Bearer", token.v>>,
                         !.ContentType = <<"application/json">>]
    ELSE headers

AxiosInit ==
    /\ GuardStart(DocRouteRoles, <<Home, <<>> >>, FALSE)
    /\ rt = Idle
    /\ perm = Idle
    /\ http = Idle
    /\ chain = Idle
    /\ \E v \in JarValues :
          ax = [stage |-> "loaded", jar |-> v, atLoad |-> v, sent |-> <<>>]

(* The application stores another AUTH_TOKEN cookie. *)
cookiesSet ==
    /\ ax.stage = "loaded"
    /\ \E v \in JarValues \ {Undefined, ax.jar} : ax' = [ax EXCEPT !.jar = v]
    /\ UNCHANGED <<guardVars, rt, perm, http, chain>>

(* The application removes the AUTH_TOKEN cookie. *)
cookiesRemove ==
    /\ ax.stage = "loaded"
    /\ ax.jar # Undefined
    /\ ax' = [ax EXCEPT !.jar = Undefined]
    /\ UNCHANGED <<guardVars, rt, perm, http, chain>>

(* A request goes through axiosInstance: the interceptor gives the         *)
(* headers it is sent with.                                                *)
axiosRequest ==
    /\ ax.stage = "loaded"
    /\ Len(ax.sent) < MaxRequests
    /\ \E h \in ConfigHeaders :
          ax' = [ax EXCEPT !.sent =
                    Append(ax.sent,
                           [cookie |-> ax.jar, config |-> h,
                            headers |-> requestInterceptor(cookiesGet(ax), h)])]
    /\ UNCHANGED <<guardVars, rt, perm, http, chain>>

AxiosNext ==
    \/ cookiesSet
    \/ cookiesRemove
    \/ axiosRequest

SpecAxios == AxiosInit /\ [][AxiosNext]_vars

----------------------------------------------------------------------------
(* Signing in.  The visitor follows no link and does not sign out; the     *)
(* renders, the effects, the loader's timer and the router's navigations   *)
(* all eventually happen.                                                  *)

(* An unauthenticated visitor requests a path of the application. *)
LoginInit ==
    /\ \E table \in Tables, p \in Paths : GuardStart(table, <<p, <<>> >>, FALSE)
    /\ rt = Idle
    /\ perm = Idle
    /\ http = Idle
    /\ chain = Idle
    /\ ax = Idle

LoginNext ==
    \/ Render
    \/ RunEffects
    \/ TimerFires
    \/ AuthResolves
    \/ SignIn
    \/ Navigate

SpecLogin ==
    /\ LoginInit
    /\ [][LoginNext]_vars
    /\ WF_vars(Render)
    /\ WF_vars(RunEffects)
    /\ WF_vars(TimerFires)
    /\ WF_vars(Navigate)

needsAuth(table, p) == find(table, p).some /\ find(table, p).val.needAuth

(* The paths some table asks authentication for. *)
ProtectedPaths == {p \in Paths : \E table \in Tables : needsAuth(table, p)}

(* An authenticated visitor on the sign-in page whose redirect parameter   *)
(* names p, a path for which the guard sends to sign-in.                   *)
SignedInFor(p) ==
    /\ pathName = SignInPath
    /\ ~isAuthLoading
    /\ isAuthenticated(user, cookie)
    /\ needsAuth(routeRoles, p)
    /\ redirectTo(search) = Some(p)

(* C11: a visitor sent to sign-in from a path that needs authentication,   *)
(* once authenticated on the sign-in page, is eventually navigated to     *)
(* that path.                                                              *)
C11_RedirectAfterLogin ==
    \A p \in ProtectedPaths : SignedInFor(p) ~> (pathName = p)

----------------------------------------------------------------------------
(* One visit with the documented tables: the identity is whatever the      *)
(* session resolves to and does not change afterwards; the visitor follows *)
(* no link, so every change of location is a redirect of the component.    *)

FixedInit ==
    /\ \E location \in Locations, token \in BOOLEAN :
          GuardStart(DocRouteRoles, location, token)
    /\ rt = Idle
    /\ perm = Idle
    /\ http = Idle
    /\ chain = Idle
    /\ ax = Idle

FixedNext ==
    \/ Render
    \/ RunEffects
    \/ TimerFires
    \/ AuthResolves
    \/ Navigate

SpecFixed ==
    /\ FixedInit
    /\ [][FixedNext]_vars
    /\ WF_vars(Render)
    /\ WF_vars(RunEffects)
    /\ WF_vars(TimerFires)
    /\ WF_vars(Navigate)

(* C19: with the documented tables the component asks the router for only *)
(* finitely many redirects: from some point on no navigation is pending.   *)
C19_FinitelyManyRedirects == <>[](pendingNav = None)

(* The second redirect of a chain: from /signin?redirect=%2Fsignup to      *)
(* /signup, and from there to "/".                                         *)
W19_SecondRedirectOfAChain ==
    /\ routeRoles = DocRouteRoles
    /\ pathName = SignUpPath
    /\ pendingNav = Some(Home)
    /\ calls = <<RouterCall("push", Home)>>

(* An Error, an AxiosError with neither response nor request included,   *)
(* whose own message is empty.                                            *)
EmptyMessageError(error) ==
    /\ error.message = Str("")
    /\ \/ error.class = "Error"
       \/ error.class = "AxiosError" /\ ~error.hasResponse /\ ~error.hasRequest

(* C14 as stated: the methods never reject, and a failed axios request     *)
(* gives success = false, data = null and a non-empty message.             *)
C14_FailureHasMessage ==
    (http.stage = "settled")
    => /\ http.promise.state = "fulfilled"
       /\ (http.axios.kind = "rejected")
          => /\ http.promise.value.success = Bool(FALSE)
             /\ http.promise.value.data = Null
             /\ http.promise.value.message.t = "string"
             /\ http.promise.value.message.v # ""

(* C14: the methods never reject, and a failed axios request gives         *)
(* success = false and data = null; the message is a string that is empty  *)
(* only when the thrown value is an Error whose own message is empty.      *)
C14_FailureIsReported ==
    (http.stage = "settled")
    => /\ http.promise.state = "fulfilled"
       /\ (http.axios.kind = "rejected")
          => /\ http.promise.value.success = Bool(FALSE)
             /\ http.promise.value.data = Null
             /\ http.promise.value.message.t = "string"
             /\ (http.promise.value.message.v = "")
                <=> EmptyMessageError(http.axios.error)

W14_EmptyServerMessage ==
    /\ http.stage = "settled"
    /\ http.axios.kind = "rejected"
    /\ http.axios.error.hasResponse
    /\ http.axios.error.body.message = Str("")
    /\ http.promise.value.message = Str("Something went wrong. Please try again.")

(* C15: the middleware run in list order, each one only after all the    *)
(* earlier ones called next; one that returns without calling next is the  *)
(* last to run; when all of them called next, the list being empty         *)
(* included, the result is the response given to the chain.                *)
C15_ChainRunsInOrder ==
    (chain.stage # "idle")
    => /\ \A i \in DOMAIN chain.ran : chain.ran[i] = i
       /\ \A i \in DOMAIN chain.ran : \A j \in 1..(chain.ran[i] - 1) : j \in chain.passed
       /\ \A i \in DOMAIN chain.ran :
             chain.ran[i] \notin chain.passed => i = Len(chain.ran)
       /\ (chain.stage = "done" /\ chain.passed = DOMAIN chain.functions)
          => chain.result = chain.response
       /\ (chain.stage = "done" /\ chain.passed # DOMAIN chain.functions)
          => chain.result = LoginRedirect

W15_AuthStopsTheChain ==
    /\ chain.stage = "done"
    /\ chain.functions = <<"loggerMiddleware", "authMiddleware", "loggerMiddleware">>
    /\ ~chain.authToken
    /\ chain.ran = <<1, 2>>
    /\ chain.passed = {1}
    /\ chain.result = LoginRedirect

(* C16: a request sent while the AUTH_TOKEN cookie holds a token carries  *)
(* Authorization "Bearer <token>" with the token the cookie held when the  *)
(* request was sent; a request sent without a token keeps the headers of   *)
(* its configuration.                                                      *)
C16_BearerTokenOfTheMoment ==
    (ax.stage = "loaded")
    => \A i \in DOMAIN ax.sent :
          /\ truthy(ax.sent[i].cookie)
             => ax.sent[i].headers.Authorization = <<"Bearer", ax.sent[i].cookie.v>>
          /\ ~truthy(ax.sent[i].cookie)
             => ax.sent[i].headers = ax.sent[i].config

W16_CookieChangedBetweenRequests ==
    /\ ax.stage = "loaded"
    /\ Len(ax.sent) = 2
    /\ ax.sent[1].cookie = Str("t1")
    /\ ax.sent[1].headers.Authorization = <<"Bearer", "t1">>
    /\ ax.sent[2].cookie = Str("t2")
    /\ ax.sent[2].config.Authorization = <<"Basic", "x">>
    /\ ax.sent[2].headers.Authorization = <<"Bearer", "t2">>

----------------------------------------------------------------------------
(* Properties of the redirect parameter and of hasPermission.              *)

(* C6: the redirect parameter read on the sign-in page is exactly the      *)
(* string the sign-in href was built for, reserved characters included.    *)
C6_RedirectRoundTrip ==
    rt.stage = "landed"
    => /\ rt.path = <<"/", "signin">>
       /\ rt.out = Some(rt.arg)

W6_RoundTripOfReserved ==
    /\ rt.stage = "landed"
    /\ rt.arg = <<"%", "2", "6">>
    /\ rt.out = Some(<<"%", "2", "6">>)

(* C8: for a user whose roles are all in ROLES, hasPermission is true      *)
(* exactly when one of the roles lists the permission; no roles means no   *)
(* permission, admin has delete:comments and user has not.                 *)
C8_HasPermissionIffSomeRoleGrants ==
    (perm.stage = "done" /\ Range(perm.roles) \subseteq {"admin", "moderator", "user"})
    => /\ perm.out \in {"true", "false"}
       /\ perm.out = "true"
             <=> \E r \in Range(perm.roles) : perm.permission \in Range(ROLES[r])
       /\ perm.roles = <<>> => perm.out = "false"
       /\ (perm.roles = <<"admin">> /\ perm.permission = "delete:comments")
             => perm.out = "true"
       /\ (perm.roles = <<"user">> /\ perm.permission = "delete:comments")
             => perm.out = "false"

W8_SecondRoleGrants ==
    /\ perm.stage = "done"
    /\ perm.roles = <<"user", "admin">>
    /\ perm.permission = "delete:comments"
    /\ perm.out = "true"

(* C9: a permission check on a user holding a role that ROLES does not     *)
(* list ends in an error and never in a boolean, whatever the other roles  *)
(* and their order.                                                        *)
C9_UnknownRoleFailsLoud ==
    (/\ perm.stage = "done"
     /\ \E r \in Range(perm.roles) : r \notin {"admin", "moderator", "user"})
    => perm.out \notin {"true", "false"}

====
